---- MODULE Spec2Model ----
(***************************************************************************)
(* Model of the model-lifecycle and feedback-loop subsystem of             *)
(* meme-harvester: the feedback server's request handlers                  *)
(* (src/python/feedback_server.py) and the train_classifier.py subprocess  *)
(* they launch (src/python/train_classifier.py).                           *)
(*                                                                         *)
(* A file on disk is modelled by its state (absent, partial = opened for   *)
(* writing and not completely written, ok = completely written) and, for   *)
(* a complete model or metadata file, the classifier it belongs to.        *)
(***************************************************************************)
EXTENDS Naturals, Sequences, FiniteSets

\* ------------------------------------------------------------------ bounds

\* Number of requests the server handles at once (the threads of app.run).
NumThreads == 2

\* Number of classifiers the train invocations of a behaviour may write.
MaxTrains == 2

\* The last UTC second of the modelled clock (seconds 0..MaxClock).
MaxClock == 1

\* The longest corrections list of a /api/corrections request.
MaxCorrections == 2

\* Number of /api/corrections requests of a behaviour.
MaxIngests == 2

\* The files of one subdirectory of the dataset are at most MaxFiles.
MaxFiles == 3

\* ------------------------------------------------------------- value sets

Threads == 1..NumThreads

Versions == 1..MaxTrains

Seconds == 0..MaxClock

\* The timestamp of a train that has not archived anything.
NoTs == MaxClock + 1

Absent == [st |-> "absent", ver |-> 0]

Partial == [st |-> "partial", ver |-> 0]

Complete(v) == [st |-> "ok", ver |-> v]

\* Path.exists()
Exists(f) == f.st # "absent"

\* Path: a path as its parent, the stem of its name and the suffix.
Str(path) == path.parent \o "/" \o path.stem \o path.suffix

\* Path.with_suffix.
WithSuffix(path, suffix) == [path EXCEPT !.suffix = suffix]

\* feedback_server.main, script_dir.parent.
ScriptParent == "src"

\* feedback_server.main, the default of --model.
DefaultModelPath(script_parent) ==
    [parent |-> script_parent \o "/models", stem |-> "classifier",
     suffix |-> ".pkl"]

DefaultBlocklistPath_InMetadata(script_parent) ==
    [parent |-> script_parent \o "/models", stem |-> "classifier.meta",
     suffix |-> ".json"]

\* feedback_server.main, the default of --blocklist.
DefaultBlocklistPath(script_parent) ==
    [parent |-> script_parent \o "/models", stem |-> "blocklist",
     suffix |-> ".json"]

MODEL_PATH == DefaultModelPath(ScriptParent)

BLOCKLIST_PATH == DefaultBlocklistPath(ScriptParent)

\* save_model_metadata, meta_path.
MetaPath(output_path) == WithSuffix(output_path, ".meta.json")

\* open(target, 'w') as it leaves the file at path: truncated when path is the
\* target, untouched otherwise.
OpenForWriting(file, path, target) ==
    IF Str(path) = Str(target) THEN Partial ELSE file

\* Filenames a /api/blocklist request may carry: none, images present in
\* OUTPUT_DIR, and one that is not there.
Filenames == {"", "still_0001.jpg", "still_0002.jpg", "still_0003.jpg", "gone.jpg"}

InOutputDir == {"still_0001.jpg", "still_0002.jpg", "still_0003.jpg"}

\* imagehash.phash: still_0001 and still_0002 are visually identical frames.
PHash(f) == IF f = "still_0003.jpg" THEN "h2" ELSE "h1"

\* What the dataset checks of a handler can find: TRAINING_DATA_DIR missing,
\* no *.jpg in keep/ and exclude/, or some images.
DataStates == {"nodir", "nojpg", "images"}

\* The dataset checks with the second of them left out.
HasImages_Unchecked(d) == d # "nodir"

\* "if not TRAINING_DATA_DIR.exists()" and "if len(keep_images) == 0 and
\* len(exclude_images) == 0" both pass: the handler goes on to the subprocess.
HasImages(d) == d = "images"

VARIABLES
    modelFile,   \* MODEL_PATH (classifier.pkl)
    metaFile,    \* MODEL_PATH.with_suffix('.meta.json')
    archModel,   \* archive/{stem}_{timestamp}.pkl, by timestamp
    archMeta,    \* archive/{stem}_{timestamp}.meta.json, by timestamp
    clock,       \* datetime.utcnow() to the second
    nextVer,     \* identity of the next classifier written by a train
    blFile,      \* BLOCKLIST_PATH
    pc,          \* per thread: position in its handler / its subprocess
    kind,        \* per thread: the request it serves
    ver,         \* per thread: the classifier its train subprocess wrote
    ts,          \* per thread: timestamp taken by archive_previous_model
    resp,        \* per thread: the response it is about to return
    bhash,       \* per thread: hash_hex of the blocklist request
    bsrc,        \* per thread: filename of the blocklist request
    blLocal,     \* per thread: blocklist['entries'] as loaded and appended
    touched,     \* history, per thread: its subprocess wrote a file of the store
    acked,       \* history: hashes for which a blocklist add reported success
    blPersisted, \* history: the entries of the last completely written blocklist
    clean,       \* history: no subprocess has failed or been killed so far
    data,        \* history, per thread: what its handler's dataset checks found
    results,     \* classify_images.py: the results it printed last
    cards,       \* generate_review.py: the review cards it rendered last
    labeled,     \* TRAINING_DATA_DIR: the files of keep/ and exclude/
    cbatch,      \* handle_corrections: video name and scan number of OUTPUT_DIR
    cpc,         \* handle_corrections: position in the handler
    nSeen,       \* handle_corrections: corrections of the list iterated so far
    movedCount,  \* handle_corrections: moved_count
    errors,      \* handle_corrections: errors, each message by its kind
    cresp,       \* handle_corrections: the response
    ingests,     \* number of /api/corrections requests so far
    written,     \* history: the files copied by the current request
    verdicts,    \* history: what became of each correction iterated
    nDup,        \* history: copies onto a file the request had already copied
    cmeta,       \* handle_compare: the metadata file it found
    qpc,         \* handle_compare: position in the handler
    curMetrics,  \* handle_compare: current_metrics
    newMean,     \* the dry run: accuracy_mean of its cross-validation
    newAcc,      \* handle_compare: new_metrics['accuracy'] as a number
    advice,      \* handle_compare: recommendation and improvement
    qresp,       \* handle_compare: the response
    dkeep,       \* data_dir / 'keep': whether it exists, and its listing
    dexclude,    \* data_dir / 'exclude': whether it exists, and its listing
    loaded,      \* load_labeled_data: what its last call gave
    mtimes,      \* st_mtime of each image of the dataset, as str() prints it
    hashed,      \* compute_data_hash: its last call, with what it was given
    hashedBefore, \* history: the call of compute_data_hash before the last
    mpc,         \* train_classifier.py main: the step it is to take next
    dry_run,     \* main: args.dry_run
    mpaths,      \* main: image_paths
    mlabels,     \* main: labels
    embeddings,  \* main: embeddings, each by the image it was extracted from
    warned,      \* main: the class imbalance warning was printed
    cv_results,  \* main: the pairs cross_validate was given, once it returned
    classifier,  \* main: classifier, by what it was fitted on
    temp_classifier, \* main: temp_classifier, by what it was fitted on
    metrics,     \* main: the metrics dictionary, by where its values are from
    storeOps,    \* history: what the run did to the model store, in order
    raised       \* main: the exception that ended the run, if one did

storeVars == <<modelFile, metaFile, archModel, archMeta>>

\* The state of the command-line tools run beside the server.
reviewVars == <<results, cards>>

\* The state of a /api/corrections request and the labeled dataset.
corrVars == <<labeled, cbatch, cpc, nSeen, movedCount, errors, cresp, ingests,
              written, verdicts, nDup>>

\* The state of a /api/compare request, with the values it works on.
cmpVars == <<cmeta, qpc, curMetrics, newMean, newAcc, advice, qresp>>

\* The state of train_classifier.py reading its dataset.
hashVars == <<mtimes, hashed, hashedBefore>>

\* The state of one run of train_classifier.py main.
mainVars == <<mpc, dry_run, mpaths, mlabels, embeddings, warned, cv_results,
              classifier, temp_classifier, metrics, storeOps, raised>>

dataVars == <<dkeep, dexclude, loaded, hashVars, mainVars>>

toolVars == <<reviewVars, corrVars, cmpVars, dataVars>>

\* The state of the feedback server, its files and its subprocesses.
serverVars == <<modelFile, metaFile, archModel, archMeta, clock, nextVer, blFile,
                pc, kind, ver, ts, resp, bhash, bsrc, blLocal, touched, acked,
                blPersisted, clean, data>>

vars == <<modelFile, metaFile, archModel, archMeta, clock, nextVer, blFile,
          pc, kind, ver, ts, resp, bhash, bsrc, blLocal, touched, acked,
          blPersisted, clean, data, toolVars>>

\* The files of a fresh installation: no model, no blocklist, no labeled image.
FilesInit ==
    /\ modelFile = Absent
    /\ metaFile = Absent
    /\ archModel = [t \in Seconds |-> Absent]
    /\ archMeta = [t \in Seconds |-> Absent]
    /\ nextVer = 1
    /\ blFile = [st |-> "absent", entries |-> <<>>]
    /\ acked = {}
    /\ blPersisted = <<>>
    /\ labeled = {}

\* The model store and the blocklist of an installation that has been used:
\* one train has written the model and its metadata, one add has written the
\* blocklist.
StoreInstalled ==
    /\ modelFile = Complete(1)
    /\ metaFile = Complete(1)
    /\ archModel = [t \in Seconds |-> Absent]
    /\ archMeta = [t \in Seconds |-> Absent]
    /\ nextVer = 2
    /\ blFile = [st |-> "ok",
                 entries |-> <<[hash |-> "h1", source |-> "still_0001.jpg"]>>]
    /\ acked = {"h1"}
    /\ blPersisted = <<[hash |-> "h1", source |-> "still_0001.jpg"]>>

\* The labeled dataset of that installation: one image, ingested as keep.
LabeledInstalled ==
    labeled = {[dir |-> "keep", name |-> "clip_1_still_0001.jpg",
                from |-> [video |-> "clip", scan |-> "1"]]}

\* The server and the tools as they start.
ProcessInit ==
    /\ clock = 0
    /\ pc = [w \in Threads |-> "idle"]
    /\ kind = [w \in Threads |-> "none"]
    /\ ver = [w \in Threads |-> 0]
    /\ ts = [w \in Threads |-> NoTs]
    /\ resp = [w \in Threads |-> "none"]
    /\ bhash = [w \in Threads |-> "none"]
    /\ bsrc = [w \in Threads |-> ""]
    /\ blLocal = [w \in Threads |-> <<>>]
    /\ touched = [w \in Threads |-> FALSE]
    /\ clean = TRUE
    /\ data = [w \in Threads |-> "none"]
    /\ results = <<>>
    /\ cards = [keep |-> <<>>, exclude |-> <<>>, unclassified |-> <<>>]
    /\ cbatch = [video |-> "", scan |-> ""]
    /\ cpc = "idle"
    /\ nSeen = 0
    /\ movedCount = 0
    /\ errors = <<>>
    /\ cresp = "none"
    /\ ingests = 0
    /\ written = {}
    /\ verdicts = <<>>
    /\ nDup = 0
    /\ cmeta = [st |-> "absent", accuracy_mean |-> 0]
    /\ qpc = "idle"
    /\ curMetrics = [present |-> FALSE, accuracy_mean |-> 0]
    /\ newMean = 0
    /\ newAcc = 0
    /\ advice = [recommendation |-> "none", improved |-> FALSE, pct100 |-> 0]
    /\ qresp = "none"
    /\ dkeep = [exists |-> FALSE, files |-> <<>>]
    /\ dexclude = [exists |-> FALSE, files |-> <<>>]
    /\ loaded = [status |-> "none", paths |-> <<>>, labels |-> <<>>]
    /\ mtimes = [p \in {} |-> ""]
    /\ hashed = [done |-> FALSE, files |-> [p \in {} |-> ""], passed |-> <<>>,
                 hash |-> ""]
    /\ hashedBefore = [done |-> FALSE, files |-> [p \in {} |-> ""],
                       passed |-> <<>>, hash |-> ""]
    /\ mpc = "start"
    /\ dry_run = FALSE
    /\ mpaths = <<>>
    /\ mlabels = <<>>
    /\ embeddings = <<>>
    /\ warned = FALSE
    /\ cv_results = [done |-> FALSE, X |-> <<>>, y |-> <<>>]
    /\ classifier = [fitted |-> FALSE, X |-> <<>>, y |-> <<>>]
    /\ temp_classifier = [fitted |-> FALSE, X |-> <<>>, y |-> <<>>]
    /\ metrics = "none"
    /\ storeOps = <<>>
    /\ raised = "none"

Init == FilesInit /\ ProcessInit

\* The server started on an installation that has been used.
FrameInit == StoreInstalled /\ LabeledInstalled /\ ProcessInit

\* ------------------------------------------------------------- helpers

AllIdle == \A w \in Threads : pc[w] = "idle"

\* Positions at which the train_classifier.py subprocess is running.
ChildPcs == {"eval", "arch_model", "arch_meta", "write_open", "write_dump",
             "meta_open", "meta_dump"}

Set(x, w, v) == [x EXCEPT ![w] = v]

Hashes(entries) == {entries[i].hash : i \in 1..Len(entries)}

\* main, "if args.dry_run: ... else: ... archive_previous_model(output_path)":
\* where the subprocess goes when its evaluation has finished.
AfterEval_NoArchive(dry) == IF dry THEN "exit" ELSE "write_open"

AfterEval_DryRunPersists(dry) == "arch_model"

AfterEval(dry) == IF dry THEN "exit" ELSE "arch_model"

\* handle_retrain / handle_compare after subprocess.run returned:
\* "if result.returncode != 0" gives the 500 response, otherwise the output is
\* parsed and the success response built.
Returned(rc) == IF rc # 0 THEN "failed" ELSE "success"

\* handle_blocklist, any(entry['hash'] == hash_hex for entry in entries).
HashExists_Never(entries, h) == FALSE

HashExists(entries, h) == \E i \in 1..Len(entries) : entries[i].hash = h

\* handle_blocklist, blocklist['entries'].append(entry).
AddEntry_Prepend(entries, e) == <<e>> \o entries

AddEntry(entries, e) == Append(entries, e)

\* ------------------------------------------------- clock (datetime.utcnow)

Tick ==
    /\ clock < MaxClock
    /\ clock' = clock + 1
    /\ UNCHANGED <<storeVars, nextVer, blFile, pc, kind, ver, ts, resp, bhash,
                   bsrc, blLocal, touched, acked, blPersisted, toolVars, data, clean>>

\* ------------------------------------------- feedback_server.handle_retrain

\* The handler up to subprocess.run: the dataset checks (400 when they fail),
\* then the launch of train_classifier.py --data ... --output MODEL_PATH.
RetrainStart(w) ==
    /\ pc[w] = "idle"
    /\ \E d \in DataStates :
         /\ data' = Set(data, w, d)
         /\ IF HasImages(d)
            THEN /\ pc' = Set(pc, w, "eval")
                 /\ resp' = resp
            ELSE /\ pc' = Set(pc, w, "respond")
                 /\ resp' = Set(resp, w, "bad_request")
    /\ kind' = Set(kind, w, "retrain")
    /\ UNCHANGED <<storeVars, clock, nextVer, blFile, ver, ts, bhash, bsrc,
                   blLocal, touched, acked, blPersisted, toolVars, clean>>

\* ------------------------------------------- feedback_server.handle_compare

\* The handler up to subprocess.run: the dataset checks, the load of the
\* current metadata (json.load raises on a half-written file, which ends in
\* the 500 response), then the launch of train_classifier.py ... --dry-run.
CompareStart(w) ==
    /\ pc[w] = "idle"
    /\ \E d \in DataStates :
         /\ data' = Set(data, w, d)
         /\ IF ~HasImages(d)
            THEN /\ pc' = Set(pc, w, "respond")
                 /\ resp' = Set(resp, w, "bad_request")
            ELSE IF metaFile.st = "partial"
            THEN /\ pc' = Set(pc, w, "respond")
                 /\ resp' = Set(resp, w, "error")
            ELSE /\ pc' = Set(pc, w, "eval")
                 /\ resp' = resp
    /\ kind' = Set(kind, w, "compare")
    /\ UNCHANGED <<storeVars, clock, nextVer, blFile, ver, ts, bhash, bsrc,
                   blLocal, touched, acked, blPersisted, toolVars, clean>>

\* ------------------------------------------------- train_classifier.main

\* Load the dataset, extract embeddings, cross-validate, fit, report: ends in
\* an uncaught exception (exit status 1), or in the dry-run branch (exit
\* status 0), or goes on to the persistence branch.
TrainEval(w) ==
    /\ pc[w] = "eval"
    /\ \E ok \in BOOLEAN :
         IF ~ok
         THEN /\ pc' = Set(pc, w, "respond")
              /\ resp' = Set(resp, w, Returned(1))
              /\ clean' = FALSE
         ELSE IF AfterEval(kind[w] = "compare") = "exit"
         THEN /\ pc' = Set(pc, w, "respond")
              /\ resp' = Set(resp, w, Returned(0))
              /\ clean' = clean
         ELSE /\ pc' = Set(pc, w, AfterEval(kind[w] = "compare"))
              /\ resp' = resp
              /\ clean' = clean
    /\ UNCHANGED <<storeVars, clock, nextVer, blFile, kind, ver, ts, bhash, bsrc,
                   blLocal, touched, acked, blPersisted, toolVars, data>>

\* archive_previous_model, the model: nothing to do when MODEL_PATH does not
\* exist; otherwise the timestamp is taken and shutil.copy2 copies MODEL_PATH
\* to the archive path of that timestamp, replacing a file already there.
ArchiveModel(w) ==
    /\ pc[w] = "arch_model"
    /\ IF Exists(modelFile)
       THEN /\ ts' = Set(ts, w, clock)
            /\ archModel' = [archModel EXCEPT ![clock] = modelFile]
            /\ touched' = Set(touched, w, TRUE)
            /\ pc' = Set(pc, w, "arch_meta")
       ELSE /\ pc' = Set(pc, w, "write_open")
            /\ UNCHANGED <<ts, archModel, touched>>
    /\ UNCHANGED <<modelFile, metaFile, archMeta, clock, nextVer, blFile, kind, ver,
                   resp, bhash, bsrc, blLocal, acked, blPersisted, toolVars, data, clean>>

\* archive_previous_model, the metadata: "if meta_path.exists():" copy it to
\* the archive path of the same timestamp.
ArchiveMeta(w) ==
    /\ pc[w] = "arch_meta"
    /\ archMeta' = IF Exists(metaFile)
                   THEN [archMeta EXCEPT ![ts[w]] = metaFile]
                   ELSE archMeta
    /\ pc' = Set(pc, w, "write_open")
    /\ UNCHANGED <<modelFile, metaFile, archModel, clock, nextVer, blFile, kind, ver,
                   ts, resp, bhash, bsrc, blLocal, touched, acked, blPersisted,
                   toolVars, data, clean>>

\* main, "with open(output_path, 'wb') as f": the open truncates MODEL_PATH.
WriteOpen(w) ==
    /\ pc[w] = "write_open"
    /\ modelFile' = Partial
    /\ touched' = Set(touched, w, TRUE)
    /\ pc' = Set(pc, w, "write_dump")
    /\ UNCHANGED <<metaFile, archModel, archMeta, clock, nextVer, blFile, kind, ver,
                   ts, resp, bhash, bsrc, blLocal, acked, blPersisted, toolVars, data, clean>>

\* main, pickle.dump(classifier, f): completes, or an I/O error ends the
\* subprocess (exit status 1) with the file as far as it was written.
WriteDump(w) ==
    /\ pc[w] = "write_dump"
    /\ \/ /\ nextVer <= MaxTrains
          /\ modelFile' = Complete(nextVer)
          /\ ver' = Set(ver, w, nextVer)
          /\ nextVer' = nextVer + 1
          /\ pc' = Set(pc, w, "meta_open")
          /\ UNCHANGED <<resp, clean>>
       \/ /\ pc' = Set(pc, w, "respond")
          /\ resp' = Set(resp, w, Returned(1))
          /\ clean' = FALSE
          /\ UNCHANGED <<modelFile, ver, nextVer>>
    /\ UNCHANGED <<metaFile, archModel, archMeta, clock, blFile, kind, ts, bhash,
                   bsrc, blLocal, touched, acked, blPersisted, toolVars, data>>

\* save_model_metadata, "with open(meta_path, 'w') as f": the open truncates
\* the metadata file.
MetaOpen(w) ==
    /\ pc[w] = "meta_open"
    /\ metaFile' = Partial
    /\ pc' = Set(pc, w, "meta_dump")
    /\ UNCHANGED <<modelFile, archModel, archMeta, clock, nextVer, blFile, kind, ver,
                   ts, resp, bhash, bsrc, blLocal, touched, acked, blPersisted,
                   toolVars, data, clean>>

\* save_model_metadata, json.dump(metadata, f, indent=2): completes and main
\* returns (exit status 0), or an I/O error ends the subprocess.
MetaDump(w) ==
    /\ pc[w] = "meta_dump"
    /\ \/ /\ metaFile' = Complete(ver[w])
          /\ resp' = Set(resp, w, Returned(0))
          /\ clean' = clean
       \/ /\ metaFile' = metaFile
          /\ resp' = Set(resp, w, Returned(1))
          /\ clean' = FALSE
    /\ pc' = Set(pc, w, "respond")
    /\ UNCHANGED <<modelFile, archModel, archMeta, clock, nextVer, blFile, kind, ver,
                   ts, bhash, bsrc, blLocal, touched, acked, blPersisted, toolVars, data>>

\* ------------------------------------------ the end of a request's handler

\* subprocess.run(..., timeout=300) expires: the child is killed where it is
\* and the handler answers from "except subprocess.TimeoutExpired".
Timeout(w) ==
    /\ pc[w] \in ChildPcs
    /\ resp' = Set(resp, w, "timeout")
    /\ pc' = Set(pc, w, "respond")
    /\ clean' = FALSE
    /\ UNCHANGED <<storeVars, clock, nextVer, blFile, kind, ver, ts, bhash, bsrc,
                   blLocal, touched, acked, blPersisted, toolVars, data>>

\* return jsonify(...): the request is over and the thread is free again.
Respond(w) ==
    /\ pc[w] = "respond"
    /\ pc' = Set(pc, w, "idle")
    /\ kind' = Set(kind, w, "none")
    /\ ver' = Set(ver, w, 0)
    /\ ts' = Set(ts, w, NoTs)
    /\ resp' = Set(resp, w, "none")
    /\ bhash' = Set(bhash, w, "none")
    /\ bsrc' = Set(bsrc, w, "")
    /\ blLocal' = Set(blLocal, w, <<>>)
    /\ touched' = Set(touched, w, FALSE)
    /\ data' = Set(data, w, "none")
    /\ UNCHANGED <<storeVars, clock, nextVer, blFile, acked, blPersisted,
                   toolVars, clean>>

\* ----------------------------------------- feedback_server.handle_blocklist

\* The handler up to the hash: no filename (400), image not in OUTPUT_DIR
\* (404), else hash_hex = str(imagehash.phash(img, hash_size=8)).
BlocklistStart(w) ==
    /\ pc[w] = "idle"
    /\ \E f \in Filenames :
         IF f = ""
         THEN /\ pc' = Set(pc, w, "respond")
              /\ resp' = Set(resp, w, "bad_request")
              /\ UNCHANGED <<bhash, bsrc>>
         ELSE IF f \notin InOutputDir
         THEN /\ pc' = Set(pc, w, "respond")
              /\ resp' = Set(resp, w, "not_found")
              /\ UNCHANGED <<bhash, bsrc>>
         ELSE /\ pc' = Set(pc, w, "bl_load")
              /\ bhash' = Set(bhash, w, PHash(f))
              /\ bsrc' = Set(bsrc, w, f)
              /\ resp' = resp
    /\ kind' = Set(kind, w, "blocklist")
    /\ UNCHANGED <<storeVars, clock, nextVer, blFile, ver, ts, blLocal, touched,
                   acked, blPersisted, toolVars, data, clean>>

\* Load the existing blocklist (json.load raises on a half-written file, which
\* ends in the 500 response), reject a hash already present (400), else append
\* the new entry to the loaded list.
BlocklistLoad(w) ==
    /\ pc[w] = "bl_load"
    /\ IF blFile.st = "partial"
       THEN /\ pc' = Set(pc, w, "respond")
            /\ resp' = Set(resp, w, "error")
            /\ blLocal' = blLocal
       ELSE IF HashExists(blFile.entries, bhash[w])
       THEN /\ pc' = Set(pc, w, "respond")
            /\ resp' = Set(resp, w, "duplicate")
            /\ blLocal' = blLocal
       ELSE /\ pc' = Set(pc, w, "bl_open")
            /\ resp' = resp
            /\ blLocal' = Set(blLocal, w,
                   AddEntry(blFile.entries, [hash |-> bhash[w], source |-> bsrc[w]]))
    /\ UNCHANGED <<storeVars, clock, nextVer, blFile, kind, ver, ts, bhash, bsrc,
                   touched, acked, blPersisted, toolVars, data, clean>>

\* "with open(BLOCKLIST_PATH, 'w') as f": the open truncates the file.
BlocklistOpen(w) ==
    /\ pc[w] = "bl_open"
    /\ blFile' = [st |-> "partial", entries |-> <<>>]
    /\ modelFile' = OpenForWriting(modelFile, MODEL_PATH, BLOCKLIST_PATH)
    /\ metaFile' = OpenForWriting(metaFile, MetaPath(MODEL_PATH), BLOCKLIST_PATH)
    /\ pc' = Set(pc, w, "bl_dump")
    /\ UNCHANGED <<archModel, archMeta, clock, nextVer, kind, ver, ts, resp, bhash, bsrc,
                   blLocal, touched, acked, blPersisted, toolVars, data, clean>>

\* json.dump(blocklist, f, indent=2), then the success response.
BlocklistDump(w) ==
    /\ pc[w] = "bl_dump"
    /\ blFile' = [st |-> "ok", entries |-> blLocal[w]]
    /\ acked' = acked \cup {bhash[w]}
    /\ blPersisted' = blLocal[w]
    /\ UNCHANGED <<toolVars, data>>
    /\ resp' = Set(resp, w, "success")
    /\ pc' = Set(pc, w, "respond")
    /\ UNCHANGED <<storeVars, clock, nextVer, kind, ver, ts, bhash, bsrc, blLocal,
                   touched, clean>>

\* -------------------------------------- feedback_server.handle_corrections

\* The output directories a server may have been started on:
\* .../OUTPUT/<video name>/<scan number>.
Batches ==
    {[video |-> "clip", scan |-> "1"], [video |-> "clip", scan |-> "2"],
     [video |-> "clip_1", scan |-> "2"]}

\* What OUTPUT_DIR holds under the names a correction may carry: two stills and
\* a subdirectory.
BatchFiles == {"still_0001.jpg", "2_still_0001.jpg", "frames"}

\* The entries of OUTPUT_DIR that are not regular files: shutil.copy2 raises.
BatchDirs == {"frames"}

\* The corrections a request may carry: 'filename' and 'newLabel' each absent
\* (or empty), valid, or not.
Corrections ==
    [filename : {"", "still_0001.jpg", "2_still_0001.jpg", "gone.jpg", "frames"},
     newLabel : {"", "keep", "exclude", "maybe"}]

\* The loop body of handle_corrections up to the copy: what becomes of one
\* correction.
Verdict(c) ==
    IF c.filename = "" \/ c.newLabel = "" THEN "invalid"
    ELSE IF c.filename \notin BatchFiles THEN "not_found"
    ELSE IF c.newLabel \notin {"keep", "exclude"} THEN "bad_label"
    ELSE IF c.filename \in BatchDirs THEN "copy_failed"
    ELSE "ok"

\* prefixed_filename = f"{video_name}_{scan_number}_{name_stem}{name_ext}";
\* stem and suffix of a filename without directories give the filename back.
DestName(batch, filename) ==
    batch.video \o "_" \o batch.scan \o "_" \o filename

\* "moved_count += 1" after a copy that did not raise.
MovedAfter_CountAll(m, verdict) == m + 1

MovedAfter(m, verdict) == IF verdict = "ok" THEN m + 1 ELSE m

\* Where the handler is after one correction: "continue" and the except
\* branch of the copy go on with the next correction.
AfterItem_Abort(verdict) == IF verdict = "ok" THEN "loop" ELSE "respond"

AfterItem(verdict) == "loop"

\* The response when the loop is left: the success response after the last
\* correction.
LoopResponse(at) == IF at = "loop" THEN "none" ELSE "error"

\* request.get_json(), "if not corrections" (400), the mkdirs, video_name and
\* scan_number from OUTPUT_DIR.
CorrectionsStart ==
    /\ cpc = "idle"
    /\ ingests < MaxIngests
    /\ ingests' = ingests + 1
    /\ \E b \in Batches : cbatch' = b
    /\ \E empty \in BOOLEAN :
         IF empty
         THEN cpc' = "respond" /\ cresp' = "bad_request"
         ELSE cpc' = "loop" /\ cresp' = cresp
    /\ UNCHANGED <<serverVars, dataVars, reviewVars, cmpVars, labeled, nSeen, movedCount, errors,
                   written, verdicts, nDup>>

\* One iteration of "for correction in corrections".
CorrectionsItem ==
    /\ cpc = "loop"
    /\ nSeen < MaxCorrections
    /\ \E c \in Corrections :
         LET v == Verdict(c)
             dest == [dir |-> c.newLabel, name |-> DestName(cbatch, c.filename)]
         IN  /\ nSeen' = nSeen + 1
             /\ movedCount' = MovedAfter(movedCount, v)
             /\ errors' = IF v = "ok" THEN errors
                          ELSE Append(errors, v)
             /\ verdicts' = Append(verdicts, v)
             /\ IF v = "ok"
                THEN /\ labeled' =
                          {x \in labeled : ~(x.dir = dest.dir /\ x.name = dest.name)}
                              \cup {[dir |-> dest.dir, name |-> dest.name,
                                     from |-> cbatch]}
                     /\ written' = written \cup {dest}
                     /\ nDup' = IF dest \in written THEN nDup + 1 ELSE nDup
                ELSE UNCHANGED <<labeled, written, nDup>>
             /\ cpc' = AfterItem(v)
             /\ cresp' = LoopResponse(AfterItem(v))
    /\ UNCHANGED <<serverVars, dataVars, reviewVars, cmpVars, cbatch, ingests>>

\* The list is exhausted: the response with movedCount and, if any, errors.
CorrectionsEnd ==
    /\ cpc = "loop"
    /\ nSeen >= 1
    /\ cpc' = "respond"
    /\ cresp' = "success"
    /\ UNCHANGED <<serverVars, dataVars, reviewVars, cmpVars, labeled, cbatch, nSeen, movedCount,
                   errors, ingests, written, verdicts, nDup>>

\* return jsonify(response).
CorrectionsRespond ==
    /\ cpc = "respond"
    /\ cpc' = "idle"
    /\ cresp' = "none"
    /\ nSeen' = 0
    /\ movedCount' = 0
    /\ errors' = <<>>
    /\ written' = {}
    /\ verdicts' = <<>>
    /\ nDup' = 0
    /\ UNCHANGED <<serverVars, dataVars, reviewVars, cmpVars, labeled, cbatch, ingests>>

\* ------------------------- feedback_server.handle_compare, the decision

\* Accuracies, in ten-thousandths: what a cross-validation mean may be. 8667
\* is 13/15, the mean of five folds of three images with two misses.
Accuracies == {0, 5000, 8000, 8400, 8667, 8752, 8754, 8800}

\* The metadata file a compare request may find: none, one cut short by an
\* interrupted write, or a complete one with the accuracy_mean of its train
\* (0 also for metrics without the key: current_metrics.get('accuracy_mean', 0)).
MetaStates ==
    {[st |-> "absent", accuracy_mean |-> 0], [st |-> "partial", accuracy_mean |-> 0]}
        \cup [st : {"ok"}, accuracy_mean : Accuracies]

\* current_metrics = None.
NoMetrics == [present |-> FALSE, accuracy_mean |-> 0]

\* improvement = None.
NoAdvice == [recommendation |-> "none", improved |-> FALSE, pct100 |-> 0]

\* train_classifier.main prints f"Accuracy:  {accuracy_mean:.3f} (+/- ...)" and
\* handle_compare takes float() of the text between ':' and '(': the mean
\* rounded to thousandths.
Parsed(mean) == ((mean + 5) \div 10) * 10

\* "if current_metrics:".
HasBaseline_NonZero(m) == m.present /\ m.accuracy_mean > 0

HasBaseline(m) == m.present

\* handle_compare, "Calculate improvement if current model exists": the
\* recommendation and the improvement (in hundredths of a percent), or the
\* ZeroDivisionError of the division by current_acc, which the handler's
\* "except (ValueError, TypeError)" does not catch.
Advise(m, new) ==
    IF ~HasBaseline(m)
    THEN [status |-> "ok",
          advice |-> [recommendation |-> "no_baseline", improved |-> FALSE,
                      pct100 |-> 0]]
    ELSE IF new > m.accuracy_mean
    THEN IF m.accuracy_mean = 0
         THEN [status |-> "ZeroDivisionError", advice |-> NoAdvice]
         ELSE [status |-> "ok",
               advice |->
                 [recommendation |->
                      IF (new - m.accuracy_mean) * 100 > 5 * m.accuracy_mean
                      THEN "retrain_recommended" ELSE "minor_improvement",
                  improved |-> TRUE,
                  pct100 |-> ((new - m.accuracy_mean) * 10000)
                                 \div m.accuracy_mean]]
    ELSE [status |-> "ok",
          advice |-> [recommendation |-> "not_recommended", improved |-> FALSE,
                      pct100 |-> 0]]

\* The handler up to subprocess.run: "if meta_path.exists():" json.load and
\* metadata.get('metrics', {}); json.load raises on a file cut short.
CompareLoad ==
    /\ qpc = "idle"
    /\ \E f \in MetaStates :
         /\ cmeta' = f
         /\ IF f.st = "partial"
            THEN qpc' = "respond" /\ qresp' = "error" /\ curMetrics' = NoMetrics
            ELSE /\ qpc' = "run"
                 /\ qresp' = qresp
                 /\ curMetrics' =
                       IF f.st = "absent" THEN NoMetrics
                       ELSE [present |-> TRUE, accuracy_mean |-> f.accuracy_mean]
    /\ UNCHANGED <<serverVars, dataVars, reviewVars, corrVars, newMean, newAcc, advice>>

\* subprocess.run of the dry run: it fails or times out (500), or it prints
\* its metrics and the handler parses them.
CompareDryRun ==
    /\ qpc = "run"
    /\ \/ /\ \E r \in {"failed", "timeout"} : qresp' = r
          /\ qpc' = "respond"
          /\ UNCHANGED <<newMean, newAcc>>
       \/ /\ \E a \in Accuracies : newMean' = a /\ newAcc' = Parsed(a)
          /\ qpc' = "advise"
          /\ qresp' = qresp
    /\ UNCHANGED <<serverVars, dataVars, reviewVars, corrVars, cmeta, curMetrics, advice>>

\* The decision and the response built from it.
CompareAdvise ==
    /\ qpc = "advise"
    /\ LET r == Advise(curMetrics, newAcc)
       IN  /\ advice' = r.advice
           /\ qresp' = IF r.status = "ok" THEN "success" ELSE "error"
    /\ qpc' = "respond"
    /\ UNCHANGED <<serverVars, dataVars, reviewVars, corrVars, cmeta, curMetrics, newMean,
                   newAcc>>

\* return jsonify(...).
CompareReply ==
    /\ qpc = "respond"
    /\ qpc' = "idle"
    /\ cmeta' = [st |-> "absent", accuracy_mean |-> 0]
    /\ curMetrics' = NoMetrics
    /\ newMean' = 0
    /\ newAcc' = 0
    /\ advice' = NoAdvice
    /\ qresp' = "none"
    /\ UNCHANGED <<serverVars, dataVars, reviewVars, corrVars>>

\* -------------------------------- train_classifier.load_labeled_data

\* The files a subdirectory of the dataset may hold, by stem and suffix.
DirFiles ==
    {[stem |-> "a", ext |-> "jpg"], [stem |-> "b", ext |-> "png"],
     [stem |-> "a", ext |-> "png"], [stem |-> "c", ext |-> "jpeg"]}

\* A sequence without repetition.
NoRepeat(q) == \A i, j \in 1..Len(q) : q[i] = q[j] => i = j

\* The listings of a directory, in the order the file system gives them.
Listings ==
    {q \in UNION {[1..n -> DirFiles] : n \in 0..MaxFiles} : NoRepeat(q)}

\* A subdirectory of the dataset: absent, or present with a listing.
DirStates ==
    {[exists |-> FALSE, files |-> <<>>]}
        \cup {[exists |-> TRUE, files |-> q] : q \in Listings}

\* dir.glob('*.' + ext): the files of that suffix, as paths under dir.
Glob(dir, d, ext) ==
    LET Matches(f) == f.ext = ext
        found == SelectSeq(d.files, Matches)
    IN  [i \in 1..Len(found) |-> [dir |-> dir, file |-> found[i]]]

\* "if dir.exists(): list(dir.glob('*.jpg')) + list(dir.glob('*.png'))".
DirImages(dir, d) ==
    IF d.exists THEN Glob(dir, d, "jpg") \o Glob(dir, d, "png") ELSE <<>>

\* "[label] * len(images)".
Labels(images, label) == [i \in 1..Len(images) |-> label]

\* load_labeled_data with the exclude images taken before the keep images.
LoadLabeledData_ExcludeFirst(keep, exclude) ==
    LET keep_images == DirImages("keep", keep)
        exclude_images == DirImages("exclude", exclude)
        image_paths == exclude_images \o keep_images
        labels == Labels(keep_images, 0) \o Labels(exclude_images, 1)
    IN  IF Len(image_paths) = 0
        THEN [status |-> "ValueError", paths |-> <<>>, labels |-> <<>>]
        ELSE [status |-> "ok", paths |-> image_paths, labels |-> labels]

\* load_labeled_data: the keep images with label 0, then the exclude images
\* with label 1; ValueError when there is no image at all.
LoadLabeledData(keep, exclude) ==
    LET keep_images == DirImages("keep", keep)
        exclude_images == DirImages("exclude", exclude)
        image_paths == keep_images \o exclude_images
        labels == Labels(keep_images, 0) \o Labels(exclude_images, 1)
    IN  IF Len(image_paths) = 0
        THEN [status |-> "ValueError", paths |-> <<>>, labels |-> <<>>]
        ELSE [status |-> "ok", paths |-> image_paths, labels |-> labels]

\* The dataset changes between two runs of train_classifier.py: one of its
\* subdirectories is created, filled, emptied or removed.
SetDataset ==
    /\ \E d \in DirStates :
          \/ dkeep' = d /\ UNCHANGED dexclude
          \/ dexclude' = d /\ UNCHANGED dkeep
    /\ loaded' = [status |-> "none", paths |-> <<>>, labels |-> <<>>]
    /\ UNCHANGED <<serverVars, reviewVars, corrVars, cmpVars, hashVars, mainVars>>

\* train_classifier.py main, "image_paths, labels = load_labeled_data(...)".
LoadData ==
    /\ loaded' = LoadLabeledData(dkeep, dexclude)
    /\ UNCHANGED <<serverVars, reviewVars, corrVars, cmpVars, dkeep, dexclude,
                   hashVars, mainVars>>

\* --------------------------------- train_classifier.compute_data_hash

\* The images of the dataset, as str(path) gives them, in the order in which
\* sorted() puts their paths.
ImagePaths == <<"training_data/exclude/b.jpg", "training_data/keep/a.jpg">>

\* The modification times a file may have, as str(path.stat().st_mtime).
Mtimes == {"1700017787.0", "1700085782.0"}

\* The place of a path in the order of sorted().
Rank(path) == CHOOSE i \in 1..Len(ImagePaths) : ImagePaths[i] = path

RECURSIVE Insert(_, _)
\* A path put at its place into a sorted list.
Insert(path, paths) ==
    IF paths = <<>> THEN <<path>>
    ELSE IF Rank(path) <= Rank(Head(paths)) THEN <<path>> \o paths
    ELSE <<Head(paths)>> \o Insert(path, Tail(paths))

\* The list as it was passed, with no sorting.
Sorted_AsPassed(paths) == paths

RECURSIVE Sorted(_)
\* "sorted(image_paths)".
Sorted(paths) ==
    IF paths = <<>> THEN <<>>
    ELSE Insert(Head(paths), Sorted(Tail(paths)))

RECURSIVE Updates(_, _)
\* The bytes the loop feeds to the hasher: for each path str(path), then
\* str(st_mtime), with nothing between them.
Updates(paths, mt) ==
    IF paths = <<>> THEN ""
    ELSE Head(paths) \o mt[Head(paths)] \o Updates(Tail(paths), mt)

\* hashlib.sha256 on the byte strings the model can feed it: the first 8 hex
\* characters of the digest of each.
Sha256 ==
    {
     [bytes |-> "training_data/keep/a.jpg1700017787.0",
      hex8 |-> "955fd3e0"],
     [bytes |-> "training_data/keep/a.jpg1700085782.0",
      hex8 |-> "955fd3e0"],
     [bytes |-> "training_data/exclude/b.jpg1700017787.0",
      hex8 |-> "6f0d388c"],
     [bytes |-> "training_data/exclude/b.jpg1700085782.0",
      hex8 |-> "869d7f79"],
     [bytes |-> "training_data/exclude/b.jpg1700017787.0training_data/keep/a.jpg1700017787.0",
      hex8 |-> "f43fa44b"],
     [bytes |-> "training_data/keep/a.jpg1700017787.0training_data/exclude/b.jpg1700017787.0",
      hex8 |-> "837e390d"],
     [bytes |-> "training_data/exclude/b.jpg1700085782.0training_data/keep/a.jpg1700017787.0",
      hex8 |-> "6bb102a1"],
     [bytes |-> "training_data/keep/a.jpg1700017787.0training_data/exclude/b.jpg1700085782.0",
      hex8 |-> "24fbca70"],
     [bytes |-> "training_data/exclude/b.jpg1700017787.0training_data/keep/a.jpg1700085782.0",
      hex8 |-> "2650a76e"],
     [bytes |-> "training_data/keep/a.jpg1700085782.0training_data/exclude/b.jpg1700017787.0",
      hex8 |-> "aef6ace0"],
     [bytes |-> "training_data/exclude/b.jpg1700085782.0training_data/keep/a.jpg1700085782.0",
      hex8 |-> "e8916f98"],
     [bytes |-> "training_data/keep/a.jpg1700085782.0training_data/exclude/b.jpg1700085782.0",
      hex8 |-> "91f2efbf"]
    }

\* "hasher.hexdigest()[:8]".
HexDigest8(bytes) == (CHOOSE d \in Sha256 : d.bytes = bytes).hex8

\* compute_data_hash(image_paths) on files with the modification times mt.
ComputeDataHash(image_paths, mt) ==
    HexDigest8(Updates(Sorted(image_paths), mt))

\* An image is added to the dataset, or an image of it is written again.
TouchFile ==
    /\ \E i \in 1..Len(ImagePaths), t \in Mtimes :
          LET path == ImagePaths[i]
          IN  /\ path \in DOMAIN mtimes => mtimes[path] # t
              /\ mtimes' = [p \in DOMAIN mtimes \cup {path} |->
                               IF p = path THEN t ELSE mtimes[p]]
    /\ UNCHANGED <<serverVars, reviewVars, corrVars, cmpVars, dkeep, dexclude,
                   loaded, hashed, hashedBefore, mainVars>>

\* An image is removed from the dataset.
RemoveFile ==
    /\ \E path \in DOMAIN mtimes :
          mtimes' = [p \in DOMAIN mtimes \ {path} |-> mtimes[p]]
    /\ UNCHANGED <<serverVars, reviewVars, corrVars, cmpVars, dkeep, dexclude,
                   loaded, hashed, hashedBefore, mainVars>>

\* train_classifier.py main, "data_hash = compute_data_hash(image_paths)": the
\* images of the dataset are passed in the order the load found them.
ComputeHash ==
    /\ DOMAIN mtimes # {}
    /\ \E passed \in [1..Cardinality(DOMAIN mtimes) -> DOMAIN mtimes] :
          /\ NoRepeat(passed)
          /\ hashed' = [done |-> TRUE, files |-> mtimes, passed |-> passed,
                        hash |-> ComputeDataHash(passed, mtimes)]
    /\ hashedBefore' = hashed
    /\ UNCHANGED <<serverVars, reviewVars, corrVars, cmpVars, dkeep, dexclude,
                   loaded, mtimes, mainVars>>

\* ------------------------------------ train_classifier.main, step by step

\* A classifier that was not fitted yet.
Unfitted == [fitted |-> FALSE, X |-> <<>>, y |-> <<>>]

\* "np.sum(labels == label)".
CountOf(ys, label) == Cardinality({i \in 1..Len(ys) : ys[i] = label})

\* The larger and the smaller of two counts.
Larger(a, b) == IF a >= b THEN a ELSE b

Smaller(a, b) == IF a <= b THEN a ELSE b

\* The warning printed when the ratio is 2.0 or more.
ImbalanceWarning_FromTwo(keep_count, exclude_count) ==
    Larger(keep_count, exclude_count)
        >= 2 * Larger(Smaller(keep_count, exclude_count), 1)

\* "class_ratio = max(keep_count, exclude_count) / max(min(keep_count,
\* exclude_count), 1)" and "if class_ratio > 2.0".
ImbalanceWarning(keep_count, exclude_count) ==
    Larger(keep_count, exclude_count)
        > 2 * Larger(Smaller(keep_count, exclude_count), 1)

\* extract_clip_embeddings: the embedding of each image in turn, an image whose
\* processing raises left out ("continue").
ExtractClipEmbeddings(paths, failed) ==
    LET Kept(p) == p \notin failed
    IN  SelectSeq(paths, Kept)

\* The elements of a sequence at the places of a set, in their order.
Take(q, places) ==
    LET n == Cardinality(places \cap (1..Len(q)))
        F[k \in 0..Len(q)] ==
            IF k = 0 THEN <<>>
            ELSE IF k \in places THEN Append(F[k - 1], q[k]) ELSE F[k - 1]
    IN  F[Len(q)]

\* The final fit with the classifier of the 80/20 split taken for it.
FinalFit_OnSplit(X, y) ==
    [fitted |-> TRUE, X |-> Take(X, 1..(Len(X) - 1)), y |-> Take(y, 1..(Len(y) - 1))]

\* "classifier.fit(embeddings, labels)".
FinalFit(X, y) == [fitted |-> TRUE, X |-> X, y |-> y]

\* What main does after the metrics are collected: "if args.dry_run" it is
\* done, else it goes on to archive_previous_model.
AfterCollect(dry) == IF dry THEN "done" ELSE "archive"

\* main with the exceptions of the evaluation caught and the run going on.
AfterRaise_Caught(step) == IF step = "load" THEN "failed" ELSE "collect"

\* main has no try: an exception raised in a step ends the run there.
AfterRaise(step) == "failed"

\* main up to load_labeled_data: the arguments are parsed, the CLIP model is
\* loaded, the dataset is read; ValueError when it holds no image.
MainLoad ==
    /\ mpc = "start"
    /\ \E dry \in BOOLEAN : dry_run' = dry
    /\ LET found == LoadLabeledData(dkeep, dexclude)
       IN  /\ mpaths' = found.paths
           /\ mlabels' = found.labels
           /\ mpc' = IF found.status = "ok" THEN "extract" ELSE AfterRaise("load")
           /\ raised' = IF found.status = "ok" THEN "none" ELSE "no_images"
    /\ UNCHANGED <<serverVars, reviewVars, corrVars, cmpVars, dkeep, dexclude,
                   loaded, hashVars, embeddings, warned, cv_results, classifier,
                   temp_classifier, metrics, storeOps>>

\* "embeddings = extract_clip_embeddings(image_paths, ...)": any of the images
\* may fail to open or to embed. The length check that follows only prints.
MainExtract ==
    /\ mpc = "extract"
    /\ \E failed \in SUBSET {mpaths[i] : i \in 1..Len(mpaths)} :
          embeddings' = ExtractClipEmbeddings(mpaths, failed)
    /\ mpc' = "balance"
    /\ UNCHANGED <<serverVars, reviewVars, corrVars, cmpVars, dkeep, dexclude,
                   loaded, hashVars, raised, dry_run, mpaths, mlabels, warned,
                   cv_results, classifier, temp_classifier, metrics, storeOps>>

\* "Check for class imbalance": the counts of the labels, the ratio, the
\* warning.
MainBalance ==
    /\ mpc = "balance"
    /\ warned' = ImbalanceWarning(CountOf(mlabels, 0), CountOf(mlabels, 1))
    /\ mpc' = "cross_validate"
    /\ UNCHANGED <<serverVars, reviewVars, corrVars, cmpVars, dkeep, dexclude,
                   loaded, hashVars, raised, dry_run, mpaths, mlabels, embeddings,
                   cv_results, classifier, temp_classifier, metrics, storeOps>>

\* cross_validate takes X and y of the same number of samples.
ConsistentLength(X, y) == Len(X) = Len(y)

\* "cv_results = cross_validate(classifier, embeddings, labels, cv=5, ...)":
\* scikit-learn raises ValueError for X and y of different lengths; it may
\* also raise for data it cannot split or fit.
MainCrossValidate ==
    /\ mpc = "cross_validate"
    /\ \E ok \in BOOLEAN :
          IF ~ConsistentLength(embeddings, mlabels)
          THEN /\ cv_results' = cv_results
               /\ mpc' = AfterRaise("cross_validate")
               /\ raised' = "inconsistent_length"
          ELSE IF ~ok
          THEN /\ cv_results' = cv_results
               /\ mpc' = AfterRaise("cross_validate")
               /\ raised' = "cross_validate"
          ELSE /\ cv_results' = [done |-> TRUE, X |-> embeddings, y |-> mlabels]
               /\ mpc' = "fit"
               /\ raised' = raised
    /\ UNCHANGED <<serverVars, reviewVars, corrVars, cmpVars, dkeep, dexclude,
                   loaded, hashVars, dry_run, mpaths, mlabels, embeddings,
                   warned, classifier, temp_classifier, metrics, storeOps>>

\* "Train on full dataset for final model".
MainFit ==
    /\ mpc = "fit"
    /\ classifier' = FinalFit(embeddings, mlabels)
    /\ mpc' = "split"
    /\ UNCHANGED <<serverVars, reviewVars, corrVars, cmpVars, dkeep, dexclude,
                   loaded, hashVars, raised, dry_run, mpaths, mlabels, embeddings,
                   warned, cv_results, temp_classifier, metrics, storeOps>>

\* "train_test_split(embeddings, labels, test_size=0.2, ...)" and the fit of
\* temp_classifier on the training part; train_test_split raises ValueError
\* for data too small to stratify.
MainSplit ==
    /\ mpc = "split"
    /\ \/ \E test \in SUBSET (1..Len(embeddings)) :
             /\ test # {}
             /\ 5 * Cardinality(test) >= Len(embeddings)
             /\ 5 * (Cardinality(test) - 1) < Len(embeddings)
             /\ test # 1..Len(embeddings)
             /\ LET train == (1..Len(embeddings)) \ test
                IN  temp_classifier' =
                        [fitted |-> TRUE, X |-> Take(embeddings, train),
                         y |-> Take(mlabels, train)]
             /\ mpc' = "collect"
             /\ raised' = raised
       \/ /\ temp_classifier' = temp_classifier
          /\ mpc' = AfterRaise("split")
          /\ raised' = "train_test_split"
    /\ UNCHANGED <<serverVars, reviewVars, corrVars, cmpVars, dkeep, dexclude,
                   loaded, hashVars, dry_run, mpaths, mlabels, embeddings,
                   warned, cv_results, classifier, metrics, storeOps>>

\* The reports, compute_data_hash, and the metrics dictionary, filled from
\* the means and deviations of cv_results.
MainCollect ==
    /\ mpc = "collect"
    /\ metrics' = "cv_results"
    /\ mpc' = AfterCollect(dry_run)
    /\ UNCHANGED <<serverVars, reviewVars, corrVars, cmpVars, dkeep, dexclude,
                   loaded, hashVars, raised, dry_run, mpaths, mlabels, embeddings,
                   warned, cv_results, classifier, temp_classifier, storeOps>>

\* "archive_previous_model(output_path)".
MainArchive ==
    /\ mpc = "archive"
    /\ storeOps' = Append(storeOps, [op |-> "archive", what |-> Unfitted,
                                     from |-> "none"])
    /\ mpc' = "write_model"
    /\ UNCHANGED <<serverVars, reviewVars, corrVars, cmpVars, dkeep, dexclude,
                   loaded, hashVars, raised, dry_run, mpaths, mlabels, embeddings,
                   warned, cv_results, classifier, temp_classifier, metrics>>

\* "pickle.dump(classifier, f)" into output_path.
MainWriteModel ==
    /\ mpc = "write_model"
    /\ storeOps' = Append(storeOps, [op |-> "write_model", what |-> classifier,
                                     from |-> "none"])
    /\ mpc' = "write_meta"
    /\ UNCHANGED <<serverVars, reviewVars, corrVars, cmpVars, dkeep, dexclude,
                   loaded, hashVars, raised, dry_run, mpaths, mlabels, embeddings,
                   warned, cv_results, classifier, temp_classifier, metrics>>

\* "save_model_metadata(output_path, data_hash, metrics, training_info)".
MainWriteMeta ==
    /\ mpc = "write_meta"
    /\ storeOps' = Append(storeOps, [op |-> "write_meta", what |-> Unfitted,
                                     from |-> metrics])
    /\ mpc' = "done"
    /\ UNCHANGED <<serverVars, reviewVars, corrVars, cmpVars, dkeep, dexclude,
                   loaded, hashVars, raised, dry_run, mpaths, mlabels, embeddings,
                   warned, cv_results, classifier, temp_classifier, metrics>>

\* The process ends, with status 0 after the last step and with status 1
\* after an uncaught exception; the next run starts afresh.
MainExit ==
    /\ mpc \in {"done", "failed"}
    /\ mpc' = "start"
    /\ dry_run' = FALSE
    /\ mpaths' = <<>>
    /\ mlabels' = <<>>
    /\ embeddings' = <<>>
    /\ warned' = FALSE
    /\ cv_results' = [done |-> FALSE, X |-> <<>>, y |-> <<>>]
    /\ classifier' = Unfitted
    /\ temp_classifier' = Unfitted
    /\ metrics' = "none"
    /\ storeOps' = <<>>
    /\ raised' = "none"
    /\ UNCHANGED <<serverVars, reviewVars, corrVars, cmpVars, dkeep, dexclude,
                   loaded, hashVars>>

\* ------------------------------------------------ classify_images.py

\* find_images(OUTPUT_DIR): the images of the output directory, sorted.
OutputImages == <<"still_0001.jpg", "still_0002.jpg", "still_0003.jpg">>

\* What classify_images gets for one image: an exception in the embedding or
\* the prediction, or a prediction (0 or 1) with the probabilities of the two
\* classes, in percent.
Outcomes ==
    {[raised |-> TRUE, prediction |-> 0, proba |-> <<0, 0>>],
     [raised |-> FALSE, prediction |-> 0, proba |-> <<80, 20>>],
     [raised |-> FALSE, prediction |-> 1, proba |-> <<20, 80>>]}

\* classify_images, the result appended for one image: label and confidence
\* of the prediction, or the null result of the except branch.
ClassifyOne(path, outcome) ==
    IF outcome.raised
    THEN [path |-> path, label |-> "null", confidence |-> 0]
    ELSE [path |-> path,
          label |-> IF outcome.prediction = 0 THEN "keep" ELSE "exclude",
          confidence |-> outcome.proba[outcome.prediction + 1]]

\* classify_images with a loop that ends at the first image that fails.
ClassifyImages_StopAtFailure(paths, outcome) ==
    LET F[k \in 0..Len(paths)] ==
            IF k = 0 THEN <<>>
            ELSE IF Len(F[k - 1]) < k - 1 \/ outcome[k].raised THEN F[k - 1]
            ELSE Append(F[k - 1], ClassifyOne(paths[k], outcome[k]))
    IN  F[Len(paths)]

\* classify_images, "for img_path in image_paths": a result is appended for
\* each path in turn, in the try branch or in the except branch.
ClassifyImages(paths, outcome) ==
    LET F[k \in 0..Len(paths)] ==
            IF k = 0 THEN <<>>
            ELSE Append(F[k - 1], ClassifyOne(paths[k], outcome[k]))
    IN  F[Len(paths)]

\* classify_images.py main on the output directory: the results it prints.
RunClassify ==
    /\ \E outcome \in [1..Len(OutputImages) -> Outcomes] :
          results' = ClassifyImages(OutputImages, outcome)
    /\ UNCHANGED <<serverVars, dataVars, cards, corrVars, cmpVars>>

\* ------------------------------------------------ generate_review.py

\* The classification a frame of report.json carries: a label, another value,
\* or none.
ReportLabels == {"keep", "exclude", "null", "none"}

\* generate_html, "for frame in frames": the frames that go to one group of
\* cards, in the order of the report.
FramesOf(frames, group) ==
    LET Goes(fr) == IF fr.label = "keep" THEN group = "keep"
                    ELSE IF fr.label = "exclude" THEN group = "exclude"
                    ELSE group = "unclassified"
    IN  SelectSeq(frames, Goes)

\* generate_html: the three groups of review cards.
GenerateHtml(frames) ==
    [keep |-> FramesOf(frames, "keep"),
     exclude |-> FramesOf(frames, "exclude"),
     unclassified |-> FramesOf(frames, "unclassified")]

\* generate_review.py main on the output directory: report.json lists the
\* stills of that scan with their classification.
RunGenerateReview ==
    /\ \E lab \in [1..Len(OutputImages) -> ReportLabels] :
          cards' = GenerateHtml([i \in 1..Len(OutputImages) |->
                                    [file |-> OutputImages[i], label |-> lab[i]]])
    /\ UNCHANGED <<serverVars, dataVars, results, corrVars, cmpVars>>

\* ------------------------------------------------------------ specifications

\* A thread serving /api/retrain or /api/compare, and the subprocess it runs.
StoreStep(w) ==
    \/ RetrainStart(w)
    \/ CompareStart(w)
    \/ TrainEval(w)
    \/ ArchiveModel(w)
    \/ ArchiveMeta(w)
    \/ WriteOpen(w)
    \/ WriteDump(w)
    \/ MetaOpen(w)
    \/ MetaDump(w)
    \/ Timeout(w)
    \/ Respond(w)

\* A thread serving /api/blocklist.
BlocklistStep(w) ==
    \/ BlocklistStart(w)
    \/ BlocklistLoad(w)
    \/ BlocklistOpen(w)
    \/ BlocklistDump(w)
    \/ Respond(w)

\* The server as started by app.run, serving /api/retrain and /api/compare:
\* requests are served concurrently, one thread each.
Next == Tick \/ \E w \in Threads : StoreStep(w)

Spec == Init /\ [][Next]_vars

\* The same server serving /api/blocklist requests concurrently.
BlocklistNext == \E w \in Threads : BlocklistStep(w)

BlocklistSpec == Init /\ [][BlocklistNext]_vars

\* The server used by one client that waits for each response before it sends
\* the next request: one request at a time, of any kind.
SeqNext == Tick \/ StoreStep(1) \/ BlocklistStep(1)

SeqSpec == Init /\ [][SeqNext]_vars

\* The review loop of one user: blocklist requests to the server, and the
\* tools run again on the output directory of the scan.
ReviewNext == BlocklistStep(1) \/ RunClassify \/ RunGenerateReview

ReviewSpec == Init /\ [][ReviewNext]_vars

\* Servers started on the output directories of several scans, one after the
\* other, taking /api/corrections requests into the same TRAINING_DATA_DIR.
IngestNext ==
    CorrectionsStart \/ CorrectionsItem \/ CorrectionsEnd \/ CorrectionsRespond

IngestSpec == Init /\ [][IngestNext]_vars

\* /api/compare requests, one at a time, with the values they work on.
CompareNext == CompareLoad \/ CompareDryRun \/ CompareAdvise \/ CompareReply

CompareSpec == Init /\ [][CompareNext]_vars

\* train_classifier.py run on one dataset after another.
LoadNext == SetDataset \/ LoadData

LoadSpec == Init /\ [][LoadNext]_vars

\* The dataset changing, and train_classifier.py fingerprinting it.
HashNext == TouchFile \/ RemoveFile \/ ComputeHash

HashSpec == Init /\ [][HashNext]_vars

\* Runs of train_classifier.py, one after the other, on a dataset that may
\* change between them.
MainNext ==
    \/ mpc = "start" /\ SetDataset
    \/ MainLoad
    \/ MainExtract
    \/ MainBalance
    \/ MainCrossValidate
    \/ MainFit
    \/ MainSplit
    \/ MainCollect
    \/ MainArchive
    \/ MainWriteModel
    \/ MainWriteMeta
    \/ MainExit

MainSpec == Init /\ [][MainNext]_vars

\* The two tools run again and again on the output directory of a scan.
ToolsNext == RunClassify \/ RunGenerateReview

ToolsSpec == Init /\ [][ToolsNext]_vars

\* The server started on an installation that has been used and taking
\* requests of every kind, one at a time: requests to /api/corrections, or
\* requests to /api/retrain, /api/compare and /api/blocklist.
FrameNext ==
    \/ /\ LabeledInstalled /\ ingests = 0 /\ cpc = "idle"
       /\ (StoreStep(1) \/ BlocklistStep(1))
    \/ /\ StoreInstalled /\ pc[1] = "idle"
       /\ IngestNext

FrameSpec == FrameInit /\ [][FrameNext]_vars

\* ------------------------------------------------------------------ claims

\* A complete copy of classifier v is on disk: at MODEL_PATH or in the archive.
Held(v) == modelFile = Complete(v) \/ \E t \in Seconds : archModel[t] = Complete(v)

\* The hashes of the entries of a blocklist are pairwise distinct.
Distinct(entries) ==
    \A i, j \in 1..Len(entries) : i # j => entries[i].hash # entries[j].hash

\* The thread's request is a retrain whose subprocess is running.
Retraining(w) == kind[w] = "retrain" /\ pc[w] \in ChildPcs

\* C1: a train that is about to open MODEL_PATH for writing while a model file
\* exists there has already archived it: the archive file of the timestamp it
\* took holds a copy of the model file and, when the metadata file exists, the
\* archived metadata of that timestamp holds a copy of it.
C1_ArchiveBeforeOverwrite ==
    \A w \in Threads :
        (kind[w] = "retrain" /\ pc[w] = "write_open" /\ Exists(modelFile)) =>
            /\ ts[w] \in Seconds
            /\ archModel[ts[w]] = modelFile
            /\ Exists(metaFile) => archMeta[ts[w]] = metaFile

\* A train has archived a complete model and its metadata and is about to
\* open MODEL_PATH for writing.
C1_Witness ==
    \E w \in Threads :
        /\ kind[w] = "retrain" /\ pc[w] = "write_open"
        /\ modelFile.st = "ok" /\ metaFile.st = "ok"
        /\ ts[w] \in Seconds

\* C2: as long as every train invocation completes, a classifier of which a
\* complete copy is on disk (at MODEL_PATH or in the archive) keeps a complete
\* copy on disk in the next state.
C2_PriorModelKept ==
    [][clean' => \A v \in Versions : Held(v) => Held(v)']_vars

\* C3: as long as every train invocation completes, no step changes or removes
\* an archive file that exists.
C3_ArchiveNeverOverwritten ==
    [][clean' => \A t \in Seconds : Exists(archModel[t]) => archModel'[t] = archModel[t]]_vars

\* C4: no step of a compare request, the dry-run subprocess included, changes
\* the model file, the metadata file or the archive.
C4_DryRunFrame ==
    [][\A w \in Threads :
          ((kind[w] = "compare" \/ kind'[w] = "compare") /\ pc'[w] # pc[w])
              => UNCHANGED storeVars]_vars

\* A compare request's dry run has exited with status 0 while a model, its
\* metadata and an archived model exist.
C4_Witness ==
    \E w \in Threads :
        /\ kind[w] = "compare" /\ pc[w] = "respond" /\ resp[w] = "success"
        /\ modelFile.st = "ok" /\ metaFile.st = "ok"
        /\ \E t \in Seconds : Exists(archModel[t])

\* C5: a retrain request that answers with the timeout failure has a
\* subprocess that wrote no file of the store.
C5_TimeoutLeavesStore ==
    \A w \in Threads :
        (kind[w] = "retrain" /\ pc[w] = "respond" /\ resp[w] = "timeout")
            => ~touched[w]

\* C6: when no request is being served, a complete model file at MODEL_PATH
\* has beside it the complete metadata written by the same train invocation.
C6_ModelWithItsMetadata ==
    (AllIdle /\ modelFile.st = "ok") => metaFile = modelFile

\* C7: when no request is being served, MODEL_PATH holds no half-written file.
C7_NoHalfWrittenModel ==
    AllIdle => modelFile.st # "partial"

\* C8: at most one retrain subprocess is running at any time.
C8_OneRetrainInFlight ==
    Cardinality({w \in Threads : Retraining(w)}) <= 1

\* C9: with requests served one at a time, the hashes of the persisted entries
\* are pairwise distinct after every step, and an add whose hash is already in
\* the file answers with the duplicate error and leaves the file unchanged.
C9_UniqueHashes ==
    [][/\ Distinct(blFile'.entries)
       /\ \A w \in Threads :
            (pc[w] = "bl_load" /\ pc'[w] # "bl_load"
                /\ bhash[w] \in Hashes(blFile.entries))
              => (resp'[w] = "duplicate" /\ blFile' = blFile)]_vars

\* An add of still_0002.jpg is rejected as a duplicate of the entry stored for
\* still_0001.jpg, with a second, different entry in the file.
C9_Witness ==
    \E w \in Threads :
        /\ pc[w] = "respond" /\ resp[w] = "duplicate"
        /\ blFile.st = "ok" /\ Len(blFile.entries) = 2
        /\ \E i \in 1..2 : /\ blFile.entries[i].hash = bhash[w]
                           /\ blFile.entries[i].source # bsrc[w]

\* C10: when no request is being served, every hash whose add reported
\* success is in the blocklist file, and no two entries have the same hash.
C10_NoLostUpdate ==
    AllIdle => (acked \subseteq Hashes(blFile.entries) /\ Distinct(blFile.entries))

\* C11: with requests served one at a time, a step either leaves the persisted
\* entry list as it was or is the write of a successful add, which appends
\* exactly the new entry at the end of it; a completely written blocklist file
\* holds exactly that list.
C11_AppendOnly ==
    [][/\ \/ blPersisted' = blPersisted
          \/ \E w \in Threads :
                /\ pc[w] = "bl_dump" /\ resp'[w] = "success"
                /\ blPersisted' =
                      Append(blPersisted, [hash |-> bhash[w], source |-> bsrc[w]])
       /\ blFile'.st = "ok" => blFile'.entries = blPersisted']_vars

\* A second add has succeeded: the file holds the first entry followed by the
\* new one.
C11_Witness ==
    \E w \in Threads :
        /\ pc[w] = "respond" /\ resp[w] = "success" /\ kind[w] = "blocklist"
        /\ blFile.st = "ok" /\ Len(blFile.entries) = 2
        /\ blFile.entries[2].hash = bhash[w]
        /\ blFile.entries[1].hash # bhash[w]

\* The files shown on the review cards.
CardFiles(c) ==
    {c.keep[i].file : i \in 1..Len(c.keep)}
        \cup {c.exclude[i].file : i \in 1..Len(c.exclude)}
        \cup {c.unclassified[i].file : i \in 1..Len(c.unclassified)}

\* C12: a run of classify_images.py or generate_review.py produces no result
\* and no review card for an image whose hash is in the blocklist at that
\* time.
C12_BlocklistFiltersReview ==
    [][/\ results' # results =>
            \A i \in 1..Len(results') :
                PHash(results'[i].path) \notin Hashes(blPersisted)
       /\ cards' # cards =>
            \A f \in CardFiles(cards') : PHash(f) \notin Hashes(blPersisted)]_vars

\* The number of corrections iterated whose verdict is one of kinds.
NumOf(kinds) == Cardinality({i \in 1..Len(verdicts) : verdicts[i] \in kinds})

\* The corrections the claim calls invalid: missing field, missing source
\* image, label outside {keep, exclude}.
Invalid == {"invalid", "not_found", "bad_label"}

C15_NoCrossBatchOverwrite ==
    [][\A x \in labeled : \A y \in labeled' :
          (x.dir = y.dir /\ x.name = y.name) => x.from = y.from]_vars

\* The category the claim gives for a baseline and a new accuracy.
ClaimedCategory(current, new) ==
    IF new <= current THEN "not_recommended"
    ELSE IF (new - current) * 100 > 5 * current THEN "retrain_recommended"
    ELSE "minor_improvement"

\* The dry run of the request has returned its metrics.
DryRunDone == qpc = "respond" /\ qresp \notin {"failed", "timeout"}

\* C16: a compare that loaded a baseline and got the dry run's accuracy
\* answers with the category the two accuracies determine, with an
\* improvement exactly when the new accuracy is the higher one.
C16_CompareDecision ==
    (DryRunDone /\ curMetrics.present) =>
        /\ qresp = "success"
        /\ advice.recommendation = ClaimedCategory(curMetrics.accuracy_mean, newAcc)
        /\ advice.improved <=> newAcc > curMetrics.accuracy_mean

ImagesIn(dir, d) ==
    IF d.exists
    THEN {[dir |-> dir, file |-> d.files[i]] :
             i \in {k \in 1..Len(d.files) : d.files[k].ext \in {"jpg", "png"}}}
    ELSE {}

\* C18: whatever keep/ and exclude/ hold, the paths and labels returned by
\* load_labeled_data have the same length and go index by index: the paths
\* are the images of keep/ followed by the images of exclude/, each once, a
\* keep image has label 0 and an exclude image label 1, and a subdirectory
\* that is absent gives no path.
C18_LoadAligned ==
    loaded.status = "ok" =>
        LET paths == loaded.paths
            labels == loaded.labels
        IN  /\ Len(paths) = Len(labels)
            /\ \A i \in 1..Len(paths) :
                  \/ paths[i].dir = "keep" /\ labels[i] = 0
                  \/ paths[i].dir = "exclude" /\ labels[i] = 1
            /\ \A i, j \in 1..Len(paths) :
                  (paths[i].dir = "exclude" /\ paths[j].dir = "keep") => j < i
            /\ NoRepeat(paths)
            /\ {paths[i] : i \in 1..Len(paths)}
                  = ImagesIn("keep", dkeep) \cup ImagesIn("exclude", dexclude)
            /\ ~dkeep.exists => \A i \in 1..Len(paths) : paths[i].dir # "keep"
            /\ ~dexclude.exists =>
                  \A i \in 1..Len(paths) : paths[i].dir # "exclude"

\* C18 witness: a load that returned images of both groups, from a keep/ that
\* holds a *.jpg, a *.png and a file that is no image.
C18_Witness ==
    /\ loaded.status = "ok"
    /\ \E i \in 1..Len(loaded.paths) : loaded.paths[i].dir = "exclude"
    /\ \A x \in {"jpg", "png", "jpeg"} :
          \E i \in 1..Len(dkeep.files) : dkeep.files[i].ext = x

\* C18 witness of the absent case: a load that returned while exclude/ was
\* absent.
C18_WitnessAbsent == loaded.status = "ok" /\ ~dexclude.exists

\* What the dataset checks find when keep/ and exclude/ are both empty or
\* both absent: no TRAINING_DATA_DIR, or no image in it.
EmptyData == {"nodir", "nojpg"}

\* C19: a retrain on a dataset whose keep and exclude groups are both empty or
\* absent is answered with the dataset error, its train never gets to the
\* evaluation, and the model file, the metadata file and the archive stay as
\* they were.
C19_EmptyDatasetFails ==
    [][\A w \in Threads :
          (kind'[w] = "retrain" /\ data'[w] \in EmptyData) =>
              /\ pc'[w] = "respond"
              /\ resp'[w] = "bad_request"
              /\ ~touched'[w]
              /\ storeVars' = storeVars]_vars

\* C19 witness: a retrain was asked on an empty dataset while a model file, a
\* metadata file and an archived model were there to be changed.
C19_Witness ==
    /\ kind[1] = "retrain"
    /\ data[1] = "nojpg"
    /\ modelFile # Absent
    /\ metaFile # Absent
    /\ \E t \in Seconds : archModel[t] # Absent

\* C20: two calls of compute_data_hash on a file set that did not change give
\* the same fingerprint in whatever order the paths are passed, and two calls
\* between which a path was added, a path was removed or a modification time
\* changed give different fingerprints.
C20_Fingerprint ==
    (hashed.done /\ hashedBefore.done) =>
        /\ hashed.files = hashedBefore.files => hashed.hash = hashedBefore.hash
        /\ hashed.files # hashedBefore.files => hashed.hash # hashedBefore.hash

\* C20 as amended: two calls of compute_data_hash on a file set that did not
\* change give the same fingerprint in whatever order the paths are passed.
C20_FingerprintAmended ==
    (hashed.done /\ hashedBefore.done /\ hashed.files = hashedBefore.files)
        => hashed.hash = hashedBefore.hash

\* C20 witness: two calls on the same two files, the paths passed in one order
\* and then in the other.
C20_Witness ==
    /\ hashed.done /\ hashedBefore.done
    /\ hashed.files = hashedBefore.files
    /\ Len(hashed.passed) = 2
    /\ hashed.passed # hashedBefore.passed

\* C21: whatever the keep and exclude counts are, the imbalance warning is
\* printed exactly when the count of the majority class is more than 2.0 times
\* the count of the minority class, and the run goes on to the cross-validation
\* with the same embeddings and labels whether it was printed or not.
C21_ImbalanceWarning ==
    [][mpc = "balance" =>
          LET keep_count == CountOf(mlabels, 0)
              exclude_count == CountOf(mlabels, 1)
              majority == Larger(keep_count, exclude_count)
              minority == Smaller(keep_count, exclude_count)
          IN  /\ warned' = (majority > 2 * minority)
              /\ mpc' = "cross_validate"
              /\ UNCHANGED <<embeddings, mlabels>>]_vars

\* C21 as amended: the warning is printed exactly when the count of the
\* majority class is more than 2.0 times the count of the minority class, a
\* minority class of no image taken as one of 1 image, and the run goes on to
\* the cross-validation with the same embeddings and labels whether it was
\* printed or not.
C21_ImbalanceWarningAmended ==
    [][mpc = "balance" =>
          LET keep_count == CountOf(mlabels, 0)
              exclude_count == CountOf(mlabels, 1)
              majority == Larger(keep_count, exclude_count)
              minority == Smaller(keep_count, exclude_count)
              divisor == IF minority = 0 THEN 1 ELSE minority
          IN  /\ warned' = (majority > 2 * divisor)
              /\ mpc' = "cross_validate"
              /\ UNCHANGED <<embeddings, mlabels>>]_vars

\* C21 witness: a run on 3 keep images and 1 exclude image printed the warning
\* and went through the cross-validation and the final fit.
C21_Witness ==
    /\ warned
    /\ CountOf(mlabels, 0) = 3
    /\ CountOf(mlabels, 1) = 1
    /\ cv_results.done
    /\ classifier.fitted

\* The extraction of the run failed for some of the images and not for all.
SomeSkipped ==
    /\ mpc \notin {"start", "extract"}
    /\ 0 < Len(embeddings)
    /\ Len(embeddings) < Len(mpaths)

\* C22: a run in which the extraction of the embeddings fails for some of the
\* images and not for all of them is not ended by that: the images that failed
\* are left out and the run goes on with the others.
C22_SkippedImagesDoNotAbort ==
    SomeSkipped => raised # "inconsistent_length"

\* Embedding i is the one extracted from the image that label i belongs to,
\* for every i, and there is a label for each embedding and no other.
Aligned(X, y) ==
    /\ Len(X) = Len(y)
    /\ \A i \in 1..Len(X) : X[i] = mpaths[i] /\ y[i] = mlabels[i]

\* C23: in every run, the embeddings and the labels that main hands to the
\* cross-validation and to the final fit go index by index, embedding i with
\* the label of the image it was extracted from, also when the extraction left
\* images out; and a model that was written is one fitted on such pairs.
C23_EmbeddingsAligned ==
    /\ mpc \in {"cross_validate", "fit"} => Aligned(embeddings, mlabels)
    /\ \A k \in 1..Len(storeOps) :
          storeOps[k].op = "write_model" =>
              Aligned(storeOps[k].what.X, storeOps[k].what.y)

\* C24: classify_images gives one result for each path it was given, in the
\* order of the paths; a result is either the null result, with label null and
\* confidence 0, or one with label keep or exclude.
C24_OneResultPerImage ==
    results # <<>> =>
        /\ Len(results) = Len(OutputImages)
        /\ \A i \in 1..Len(results) :
              /\ results[i].path = OutputImages[i]
              /\ \/ results[i].label = "null" /\ results[i].confidence = 0
                 \/ results[i].label \in {"keep", "exclude"}

\* C24 witness: results in which an image that failed is followed by an image
\* that was classified.
C24_Witness ==
    \E i, j \in 1..Len(results) :
        /\ i < j
        /\ results[i].label = "null"
        /\ results[j].label \in {"keep", "exclude"}
        /\ results[j].confidence > 0

\* The steps of the evaluation that the run has finished, by what they left.
Extracted == mpc \notin {"start", "extract"} /\ mpaths # <<>>

\* C25: a run takes its steps in the order load, extract, cross-validate, final
\* fit, split evaluation, and then archive, write model, write metadata: the
\* model store is not touched before every step of the evaluation has finished
\* without an exception, and a run that an exception ended did not touch it.
C25_PersistAfterEvaluation ==
    /\ cv_results.done => Extracted
    /\ classifier.fitted => cv_results.done
    /\ temp_classifier.fitted => classifier.fitted
    /\ metrics # "none" => temp_classifier.fitted
    /\ storeOps # <<>> => metrics # "none" /\ raised = "none"
    /\ mpc \in {"archive", "write_model", "write_meta"} => metrics # "none"
    /\ raised # "none" => mpc = "failed" /\ storeOps = <<>>
    /\ \A k \in 1..Len(storeOps) :
          storeOps[k].op = <<"archive", "write_model", "write_meta">>[k]

\* C25 witness: a run that wrote the model and its metadata after an archive.
C25_Witness == Len(storeOps) = 3 /\ mpc = "done"

\* C25 witness of the failing case: a run ended by an exception of the split
\* evaluation, after the final fit.
C25_WitnessFailed == raised = "train_test_split" /\ classifier.fitted

\* C26: the model a run writes is the classifier fitted on the embeddings and
\* labels of the whole dataset, not the classifier fitted on the training part
\* of the 80/20 split, and the metrics it writes to the metadata are those
\* taken from the cross-validation.
C26_PersistsFullFit ==
    \A k \in 1..Len(storeOps) :
        /\ storeOps[k].op = "write_model" =>
              /\ storeOps[k].what = [fitted |-> TRUE, X |-> mpaths, y |-> mlabels]
              /\ storeOps[k].what # temp_classifier
        /\ storeOps[k].op = "write_meta" => storeOps[k].from = "cv_results"

\* C26 witness: a run on four images or more wrote its model and its metadata
\* after it had fitted the classifier of the split on fewer images.
C26_Witness ==
    /\ Len(storeOps) = 3
    /\ Len(mpaths) >= 4
    /\ temp_classifier.fitted
    /\ Len(temp_classifier.X) < Len(mpaths)

\* --------------------------------------------------------------- C27 (frame)

\* The step belongs to the corrections ingest.
IngestStep == cpc # "idle" \/ cpc' # "idle"

\* The step belongs to a request of kind k served by thread 1.
RequestStep(k) == kind[1] = k \/ kind'[1] = k

\* C27: every persisted file has one writer. A step of the corrections ingest
\* or of a blocklist add leaves the model file, the metadata file and the
\* archive unchanged; a step of a retrain or of a compare leaves the blocklist
\* file and the labeled training data unchanged; a step of the ingest leaves
\* the blocklist file unchanged, and a step of a blocklist add leaves the
\* labeled training data unchanged.
C27_SingleWriter ==
    [][ /\ (IngestStep \/ RequestStep("blocklist")) => UNCHANGED storeVars
        /\ (RequestStep("retrain") \/ RequestStep("compare"))
              => UNCHANGED <<blFile, labeled>>
        /\ IngestStep => UNCHANGED blFile
        /\ RequestStep("blocklist") => UNCHANGED labeled ]_vars

\* An ingest has copied an image into the training data while the model, its
\* metadata and the blocklist are on disk.
C27_Witness ==
    /\ cpc = "respond" /\ movedCount > 0
    /\ Cardinality(labeled) > 1
    /\ modelFile = Complete(1) /\ metaFile = Complete(1)
    /\ blFile.st = "ok"

\* A blocklist add has written a second entry while the model and the labeled
\* image are on disk.
C27_WitnessBlocklist ==
    /\ kind[1] = "blocklist" /\ pc[1] = "respond" /\ resp[1] = "success"
    /\ Len(blFile.entries) = 2
    /\ modelFile = Complete(1) /\ metaFile = Complete(1)
    /\ labeled # {}

\* A retrain has written a new model and its metadata while the blocklist and
\* the labeled image are on disk.
C27_WitnessRetrain ==
    /\ kind[1] = "retrain" /\ pc[1] = "respond"
    /\ modelFile = Complete(2) /\ metaFile = Complete(2)
    /\ blFile.st = "ok" /\ Len(blFile.entries) = 1
    /\ labeled # {}

\* ------------------------------------------------------- C28, C29 (compare)

\* The compare found the metadata a retrain wrote for the very mean its dry
\* run computes: the dataset has not changed since that retrain.
AfterRetrainUnchanged == cmeta.st = "ok" /\ cmeta.accuracy_mean = newMean

\* C28: the new accuracy a compare decides with is the accuracy_mean a retrain
\* on the same dataset writes to the metadata, and a compare that follows a
\* retrain on unchanged data sees new = current and reports no improvement.
C28_CompareSeesWrittenMean ==
    DryRunDone =>
        /\ newAcc = newMean
        /\ AfterRetrainUnchanged =>
              /\ newAcc = curMetrics.accuracy_mean
              /\ ~advice.improved

\* C29: a compare that loaded a metadata file that parses and got the dry
\* run's accuracy answers success with one recommendation, whatever the two
\* accuracies are.
C29_MetricsNeverFail ==
    (DryRunDone /\ cmeta.st = "ok") =>
        /\ qresp = "success"
        /\ advice.recommendation \in
              {"retrain_recommended", "minor_improvement", "not_recommended",
               "no_baseline"}

\* ---------------------------------------------------- C30 (one label each)

\* C30: no image of a batch is in both keep and exclude of the labeled
\* dataset, however many requests have ingested corrections for the batch.
C30_OneLabelPerImage ==
    \A x \in labeled : \A y \in labeled :
        (x.from = y.from /\ x.name = y.name) => x.dir = y.dir

====
